---- MODULE Spec2Model ----
(***************************************************************************)
(* A model of the react-magnetic-di SWC transform: the import analysis of  *)
(* src/src/import_analysis.rs and the mutating visitor TransformVisitor of *)
(* src/src/lib.rs.                                                         *)
(*                                                                         *)
(* The visitor is a recursive descent over the module's syntax tree.  The  *)
(* model runs it as a stack machine: every handler that wraps its children *)
(* is split into the step before the children are visited and the step     *)
(* after, with the handler's local variables kept in a stack frame.  The   *)
(* module body is drawn node by node while it is traversed, so that every  *)
(* tree within the bounds is visited; the import declarations of the       *)
(* module are drawn in Init, since the import analysis reads all of them   *)
(* before the traversal starts.                                            *)
(***************************************************************************)
EXTENDS Integers, Sequences, FiniteSets, TLC

VARIABLES
    pc,                      \* position in visit_mut_program
    importDecls,             \* the module's import declarations (part of the tree)
    nextImport,              \* index of the next import declaration to traverse
    nodes,                   \* the rest of the tree, in source (preorder) order
    stack,                   \* the handlers whose children are being visited
    imports,                 \* TransformVisitor.imports
    active_replacements,     \* TransformVisitor.active_replacements
    is_in_replaceable_scope, \* TransformVisitor.is_in_replaceable_scope
    current_scope_symbol,    \* TransformVisitor.current_scope_symbol
    inputDecls,              \* the import declarations as parsed (history)
    size                     \* the most nodes the module's body may have

vars == <<pc, importDecls, nextImport, nodes, stack, imports,
          active_replacements, is_in_replaceable_scope,
          current_scope_symbol, inputDecls, size>>

(***************************************************************************)
(* Bounds of the model.                                                    *)
(***************************************************************************)
MaxNodes == 3
MaxNested == 5
MaxDepth == 4

(***************************************************************************)
(* Atoms, syntax contexts and identifiers.  An Ident is a symbol together  *)
(* with the syntax context the resolver gave it; to_id is the pair.        *)
(***************************************************************************)
None == "None"

EmptyCtxt == "#empty"
TopCtxt == "#top"
InnerCtxt == "#inner"

Ident(sym, ctxt) == [sym |-> sym, ctxt |-> ctxt]

to_id(ident) == <<ident.sym, ident.ctxt>>

(***************************************************************************)
(* Import declarations.                                                    *)
(***************************************************************************)
\* `imported` is the name the specifier renames from (ModuleExportName), an
\* identifier the resolver leaves in the empty context; NoIdent when the
\* specifier does not rename.
NoIdent == Ident(None, EmptyCtxt)

Named(local, imported, is_type_only) ==
    [kind |-> "Named", local |-> Ident(local, TopCtxt),
     imported |-> Ident(imported, EmptyCtxt),
     is_type_only |-> is_type_only]

Default(local) ==
    [kind |-> "Default", local |-> Ident(local, TopCtxt),
     imported |-> NoIdent, is_type_only |-> FALSE]

Namespace(local) ==
    [kind |-> "Namespace", local |-> Ident(local, TopCtxt),
     imported |-> NoIdent, is_type_only |-> FALSE]

ImportDecl(type_only, src, specifiers) ==
    [type_only |-> type_only, src |-> src, specifiers |-> specifiers]

\* The import sections the model draws the module's from.
ModuleImports ==
    { \* import Modal, { X as Y } from 'pkg'
      << ImportDecl(FALSE, "pkg",
                    << Default("Modal"), Named("Y", "X", FALSE) >>) >>,
      \* import Modal, * as Y from 'pkg'
      << ImportDecl(FALSE, "pkg",
                    << Default("Modal"), Namespace("Y") >>) >>,
      \* import { Modal, type Y } from 'pkg'
      << ImportDecl(FALSE, "pkg",
                    << Named("Modal", None, FALSE), Named("Y", None, TRUE) >>) >>,
      \* import type { Modal, Y } from 'pkg'
      << ImportDecl(TRUE, "pkg",
                    << Named("Modal", None, FALSE), Named("Y", None, FALSE) >>) >> }

\* The identifiers the model draws the body's from: the two names the import
\* sections bind, as resolved to the module-level binding, and a local
\* binding that shadows the first.
BodyIdents ==
    { Ident("Modal", TopCtxt), Ident("Y", TopCtxt), Ident("Modal", InnerCtxt) }

(***************************************************************************)
(* ImportAnalysis (import_analysis.rs).                                    *)
(***************************************************************************)
ImportSpecification(symbol_id, local, dependency, package_name, is_type_only) ==
    [symbol_id |-> symbol_id,
     local_imported_symbol |-> local,
     dependency_imported_symbol |-> dependency,
     package_name |-> package_name,
     is_type_only |-> is_type_only]

\* One arm of the match on the specifier.
visit_import_specifier(node, specifier) ==
    IF specifier.kind = "Named"
    THEN ImportSpecification(
             to_id(specifier.local), specifier.local.sym,
             IF specifier.imported # NoIdent THEN specifier.imported.sym
                                         ELSE specifier.local.sym,
             node.src, specifier.is_type_only)
    ELSE ImportSpecification(
             to_id(specifier.local), specifier.local.sym,
             specifier.local.sym, node.src, node.type_only)

visit_import_decl(node) ==
    IF node.type_only
    THEN << >>
    ELSE [i \in 1..Len(node.specifiers) |->
             visit_import_specifier(node, node.specifiers[i])]

RECURSIVE ImportAnalysis(_)
ImportAnalysis(decls) ==
    IF decls = << >>
    THEN << >>
    ELSE visit_import_decl(Head(decls)) \o ImportAnalysis(Tail(decls))

(***************************************************************************)
(* The tree.  A node is a class declaration, a function declaration       *)
(* (together with its Function), a variable declarator initialised with an *)
(* arrow function, a Function that is not a declaration's (a method, a     *)
(* function expression) or an identifier.  `stmts` is the statement list   *)
(* of a body: an original statement names the child node it holds, a       *)
(* synthesized one is the declaration                                      *)
(* `const [binding] = _di([local_sym], scope)`.                            *)
(***************************************************************************)
Stmt(i) ==
    [synth |-> FALSE, node |-> i, binding |-> None, local_sym |-> None,
     scope |-> None]

\* `sym0` records the identifier as parsed and `prior` the scope symbol with
\* which the node is reached (history); `visited` tells the nodes a handler
\* ran on from those of a subtree the traversal did not descend into.
Node(kind, parent, ident, has_body, visited) ==
    [kind |-> kind, parent |-> parent, ident |-> ident, sym0 |-> ident.sym,
     has_body |-> has_body, stmts |-> << >>, visited |-> visited,
     prior |-> current_scope_symbol]

\* Declarations get names of their own, distinct from every import's.
NameOf(i) == "C" \o ToString(i)

\* A handler whose children are being visited: `scope` is
\* visit_mut_function's local current_scope_symbol, `set` tells the branch
\* of visit_mut_fn_decl and visit_mut_var_declarator that is running,
\* `pending` that the Function of a function declaration is still to be
\* visited; `prior` records current_scope_symbol at entry (history).
Frame(kind, node, scope, set, pending, prior) ==
    [kind |-> kind, node |-> node, scope |-> scope, set |-> set,
     pending |-> pending, prior |-> prior]

Top == stack[Len(stack)]

Pop == SubSeq(stack, 1, Len(stack) - 1)

Parent == IF stack = << >> THEN 0 ELSE Top.node

NewIndex == Len(nodes) + 1

\* The tree with node n added as the last child of the node being visited.
AddNode(n) ==
    LET linked == IF Parent = 0
                  THEN nodes
                  ELSE [nodes EXCEPT ![Parent].stmts = Append(@, Stmt(NewIndex))]
    IN  Append(linked, n)

\* A further child can be visited here: the traversal is inside the program,
\* not at a function declaration (whose Function holds its children) and
\* not inside a subtree visit_mut_function returned from without descending.
Visiting ==
    /\ pc = "children"
    /\ stack # << >> => Top.kind \in {"class_decl", "var_declarator", "function"}

Room(n, d) == Len(nodes) + n <= size /\ Len(stack) + d <= MaxDepth

(***************************************************************************)
(* TransformVisitor (lib.rs).                                              *)
(***************************************************************************)
ActiveReplacement(import, symbol) == [import |-> import, symbol |-> symbol]

\* find, were it to compare the symbols and not the identities.
find_by_symbol(imps, node_id) ==
    LET hits == {i \in 1..Len(imps) : imps[i].symbol_id[1] = node_id[1]}
    IN  IF hits = {} THEN 0
        ELSE CHOOSE i \in hits : \A j \in hits : i <= j

\* self.imports.iter().find(|spec| spec.symbol_id == node_id): the index of
\* the first match, 0 when there is none.
find(imps, node_id) ==
    LET hits == {i \in 1..Len(imps) : imps[i].symbol_id = node_id}
    IN  IF hits = {} THEN 0
        ELSE CHOOSE i \in hits : \A j \in hits : i <= j

\* format!("_{}", import.local_imported_symbol)
new_symbol(import) == "_" \o import.local_imported_symbol

\* visit_mut_ident, were it not to return outside a replaceable scope.
visit_mut_ident_anywhere(node, flag, imps) ==
    LET i == find(imps, to_id(node))
    IN  IF i = 0
        THEN [node |-> node, pushed |-> << >>]
        ELSE [node |-> [node EXCEPT !.sym = new_symbol(imps[i])],
              pushed |-> << ActiveReplacement(imps[i], new_symbol(imps[i])) >>]

\* visit_mut_ident on one identifier: the identifier afterwards and the
\* replacements it pushes.
visit_mut_ident(node, flag, imps) ==
    LET i == find(imps, to_id(node))
    IN  IF ~flag \/ i = 0
        THEN [node |-> node, pushed |-> << >>]
        ELSE [node |-> [node EXCEPT !.sym = new_symbol(imps[i])],
              pushed |-> << ActiveReplacement(imps[i], new_symbol(imps[i])) >>]

\* quote, were local_sym taken from the name the import renames from.
quote_dependency(replacement, scope) ==
    [synth |-> TRUE, node |-> 0, binding |-> replacement.symbol,
     local_sym |-> replacement.import.dependency_imported_symbol,
     scope |-> scope]

\* quote!("const [$binding] = _di([$local_sym], $scope)" as Stmt, ...)
quote(replacement, scope) ==
    [synth |-> TRUE, node |-> 0, binding |-> replacement.symbol,
     local_sym |-> replacement.import.local_imported_symbol, scope |-> scope]

visit_mut_program ==
    /\ pc = "start"
    /\ imports' = ImportAnalysis(importDecls)
    /\ pc' = "children"
    /\ UNCHANGED <<importDecls, nextImport, nodes, stack, active_replacements,
                   is_in_replaceable_scope, current_scope_symbol, inputDecls, size>>

Start ==
    /\ pc = "start"
    /\ inputDecls = importDecls
    /\ nextImport = 1
    /\ nodes = << >>
    /\ stack = << >>
    /\ imports = << >>
    /\ active_replacements = << >>
    /\ is_in_replaceable_scope = FALSE
    /\ current_scope_symbol = None

\* Any of the import sections, and a body of up to MaxNodes nodes.
Init ==
    /\ importDecls \in ModuleImports
    /\ size = MaxNodes
    /\ Start

\* Value imports only, and a body of up to MaxNested nodes.
InitNested ==
    /\ importDecls = << ImportDecl(FALSE, "pkg",
                          << Default("Modal"), Named("Y", "X", FALSE) >>) >>
    /\ size = MaxNested
    /\ Start

\* The default traversal of the next import declaration of the module: it
\* reaches visit_mut_ident on the local and the imported identifier of every
\* specifier.  Import declarations are module items, so the traversal is at
\* the module's top level.
visit_specifier(specifier, flag, imps) ==
    LET l == visit_mut_ident(specifier.local, flag, imps)
        m == IF specifier.imported = NoIdent
             THEN [node |-> NoIdent, pushed |-> << >>]
             ELSE visit_mut_ident(specifier.imported, flag, imps)
    IN  [node |-> [specifier EXCEPT !.local = l.node, !.imported = m.node],
         pushed |-> l.pushed \o m.pushed]

RECURSIVE pushed_by(_)
pushed_by(results) ==
    IF results = << >> THEN << >>
    ELSE Head(results).pushed \o pushed_by(Tail(results))

visit_mut_import_decl ==
    /\ pc = "children"
    /\ stack = << >>
    /\ nextImport <= Len(importDecls)
    /\ LET decl == importDecls[nextImport]
           results == [i \in 1..Len(decl.specifiers) |->
                          visit_specifier(decl.specifiers[i],
                                          is_in_replaceable_scope, imports)]
       IN  /\ importDecls' =
                 [importDecls EXCEPT ![nextImport].specifiers =
                     [i \in 1..Len(decl.specifiers) |-> results[i].node]]
           /\ active_replacements' = active_replacements \o pushed_by(results)
    /\ nextImport' = nextImport + 1
    /\ UNCHANGED <<pc, nodes, stack, imports, is_in_replaceable_scope,
                   current_scope_symbol, inputDecls, size>>

\* visit_mut_class_decl, up to the visit of the children.  The class name is
\* a binding of its own, so visit_mut_ident finds no import for it.
visit_mut_class_decl ==
    /\ Visiting
    /\ Room(1, 1)
    /\ nodes' = AddNode(Node("ClassDecl", Parent,
                             Ident(NameOf(NewIndex), InnerCtxt), FALSE, TRUE))
    /\ current_scope_symbol' = NameOf(NewIndex)
    /\ stack' = Append(stack, Frame("class_decl", NewIndex, None, TRUE,
                                    FALSE, current_scope_symbol))
    /\ UNCHANGED <<pc, importDecls, nextImport, imports, active_replacements,
                   is_in_replaceable_scope, inputDecls, size>>

\* visit_mut_class_decl, after the children.
visit_mut_class_decl_exit ==
    /\ pc = "children"
    /\ stack # << >>
    /\ Top.kind = "class_decl"
    /\ current_scope_symbol' = None
    /\ stack' = Pop
    /\ UNCHANGED <<pc, importDecls, nextImport, nodes, imports,
                   active_replacements, is_in_replaceable_scope, inputDecls, size>>

\* visit_mut_fn_decl, up to the visit of the children: either branch.  The
\* function name is a binding of its own; the child that matters is the
\* declaration's Function.
visit_mut_fn_decl ==
    /\ Visiting
    /\ Room(1, 2)
    /\ \E has_body \in BOOLEAN :
          nodes' = AddNode(Node("FnDecl", Parent,
                                Ident(NameOf(NewIndex), InnerCtxt),
                                has_body, TRUE))
    /\ IF current_scope_symbol = None
       THEN /\ current_scope_symbol' = NameOf(NewIndex)
            /\ stack' = Append(stack, Frame("fn_decl", NewIndex, None, TRUE,
                                            TRUE, current_scope_symbol))
       ELSE /\ current_scope_symbol' = current_scope_symbol
            /\ stack' = Append(stack, Frame("fn_decl", NewIndex, None, FALSE,
                                            TRUE, current_scope_symbol))
    /\ UNCHANGED <<pc, importDecls, nextImport, imports, active_replacements,
                   is_in_replaceable_scope, inputDecls, size>>

\* visit_mut_fn_decl after the children, were it to leave the scope symbol
\* it set.
visit_mut_fn_decl_exit_scope_kept ==
    /\ pc = "children"
    /\ stack # << >>
    /\ Top.kind = "fn_decl"
    /\ ~Top.pending
    /\ stack' = Pop
    /\ UNCHANGED <<pc, importDecls, nextImport, nodes, imports,
                   active_replacements, is_in_replaceable_scope,
                   current_scope_symbol, inputDecls, size>>

\* visit_mut_fn_decl, after the children.
visit_mut_fn_decl_exit ==
    /\ pc = "children"
    /\ stack # << >>
    /\ Top.kind = "fn_decl"
    /\ ~Top.pending
    /\ current_scope_symbol' = IF Top.set THEN None ELSE current_scope_symbol
    /\ stack' = Pop
    /\ UNCHANGED <<pc, importDecls, nextImport, nodes, imports,
                   active_replacements, is_in_replaceable_scope, inputDecls, size>>

\* visit_mut_var_declarator on a declarator whose name is an identifier and
\* whose initialiser is an arrow function, up to the visit of the children:
\* with a scope active the declarator's children are visited, without one
\* the scope is set and the arrow function's children are visited.  (The
\* other early returns visit the declarator's children and change nothing:
\* those children are nodes of the enclosing body here.)
visit_mut_var_declarator ==
    /\ Visiting
    /\ Room(1, 1)
    /\ nodes' = AddNode(Node("ArrowVar", Parent,
                             Ident(NameOf(NewIndex), InnerCtxt), TRUE, TRUE))
    /\ IF current_scope_symbol # None
       THEN /\ current_scope_symbol' = current_scope_symbol
            /\ stack' = Append(stack, Frame("var_declarator", NewIndex, None,
                                            FALSE, FALSE,
                                            current_scope_symbol))
       ELSE /\ current_scope_symbol' = NameOf(NewIndex)
            /\ stack' = Append(stack, Frame("var_declarator", NewIndex, None,
                                            TRUE, FALSE,
                                            current_scope_symbol))
    /\ UNCHANGED <<pc, importDecls, nextImport, imports, active_replacements,
                   is_in_replaceable_scope, inputDecls, size>>

\* visit_mut_var_declarator, after the children.
visit_mut_var_declarator_exit ==
    /\ pc = "children"
    /\ stack # << >>
    /\ Top.kind = "var_declarator"
    /\ current_scope_symbol' = IF Top.set THEN None ELSE current_scope_symbol
    /\ stack' = Pop
    /\ UNCHANGED <<pc, importDecls, nextImport, nodes, imports,
                   active_replacements, is_in_replaceable_scope, inputDecls, size>>

\* The Function of the function declaration being visited is next.
OfDecl == stack # << >> /\ Top.kind = "fn_decl" /\ Top.pending

\* visit_mut_function is reached: on the Function of the function
\* declaration being visited, or on a Function that is a further child
\* (with or without a body).
FunctionHere(has_body) ==
    /\ pc = "children"
    /\ IF OfDecl THEN nodes[Top.node].has_body = has_body
                 ELSE Visiting /\ Room(1, 1)

FunctionNode == IF OfDecl THEN Top.node ELSE NewIndex

WithFunction(has_body) ==
    IF OfDecl THEN nodes
    ELSE AddNode(Node("Function", Parent, NoIdent, has_body, TRUE))

\* The stack once visit_mut_function is entered.
Entered == IF OfDecl THEN [stack EXCEPT ![Len(stack)].pending = FALSE]
           ELSE stack

\* visit_mut_function on a Function without a body: returns.
visit_mut_function_no_body ==
    /\ FunctionHere(FALSE)
    /\ nodes' = WithFunction(FALSE)
    /\ stack' = Entered
    /\ UNCHANGED <<pc, importDecls, nextImport, imports, active_replacements,
                   is_in_replaceable_scope, current_scope_symbol, inputDecls, size>>

\* visit_mut_function with no scope symbol, were it to go on into the body.
visit_mut_function_scope_unchecked ==
    /\ FunctionHere(TRUE)
    /\ current_scope_symbol = None
    /\ nodes' = WithFunction(TRUE)
    /\ is_in_replaceable_scope' = TRUE
    /\ stack' = Append(Entered, Frame("function", FunctionNode,
                                      current_scope_symbol, FALSE, FALSE,
                                      current_scope_symbol))
    /\ UNCHANGED <<pc, importDecls, nextImport, imports, active_replacements,
                   current_scope_symbol, inputDecls, size>>

\* visit_mut_function with no scope symbol: returns, the body is not visited.
visit_mut_function_no_scope ==
    /\ FunctionHere(TRUE)
    /\ current_scope_symbol = None
    /\ nodes' = WithFunction(TRUE)
    /\ stack' = Append(Entered, Frame("unvisited", FunctionNode, None, FALSE,
                                      FALSE, current_scope_symbol))
    /\ UNCHANGED <<pc, importDecls, nextImport, imports, active_replacements,
                   is_in_replaceable_scope, current_scope_symbol, inputDecls, size>>

\* visit_mut_function, up to the visit of the body's children.
visit_mut_function ==
    /\ FunctionHere(TRUE)
    /\ current_scope_symbol # None
    /\ nodes' = WithFunction(TRUE)
    /\ is_in_replaceable_scope' = TRUE
    /\ stack' = Append(Entered, Frame("function", FunctionNode,
                                      current_scope_symbol, FALSE, FALSE,
                                      current_scope_symbol))
    /\ UNCHANGED <<pc, importDecls, nextImport, imports, active_replacements,
                   current_scope_symbol, inputDecls, size>>

\* visit_mut_function after the body's children, were it to leave the
\* replaceable flag set.
visit_mut_function_exit_flag_kept ==
    /\ pc = "children"
    /\ stack # << >>
    /\ Top.kind = "function"
    /\ active_replacements' = << >>
    /\ LET new_statements ==
               [i \in 1..Len(active_replacements) |->
                   quote(active_replacements[i], Top.scope)]
       IN  nodes' = [nodes EXCEPT ![Top.node].stmts = new_statements \o @]
    /\ stack' = Pop
    /\ UNCHANGED <<pc, importDecls, nextImport, imports,
                   is_in_replaceable_scope, current_scope_symbol,
                   inputDecls, size>>

\* visit_mut_function after the body's children, were it to put the
\* replaceable flag back to what an enclosing body had set.
visit_mut_function_exit_flag_restored ==
    /\ pc = "children"
    /\ stack # << >>
    /\ Top.kind = "function"
    /\ is_in_replaceable_scope' =
          \E k \in 1..(Len(stack) - 1) : stack[k].kind = "function"
    /\ active_replacements' = << >>
    /\ LET new_statements ==
               [i \in 1..Len(active_replacements) |->
                   quote(active_replacements[i], Top.scope)]
       IN  nodes' = [nodes EXCEPT ![Top.node].stmts = new_statements \o @]
    /\ stack' = Pop
    /\ UNCHANGED <<pc, importDecls, nextImport, imports,
                   current_scope_symbol, inputDecls, size>>

\* visit_mut_function after the body's children, were it to read the
\* accumulated replacements without taking them.
visit_mut_function_exit_not_taken ==
    /\ pc = "children"
    /\ stack # << >>
    /\ Top.kind = "function"
    /\ is_in_replaceable_scope' = FALSE
    /\ LET new_statements ==
               [i \in 1..Len(active_replacements) |->
                   quote(active_replacements[i], Top.scope)]
       IN  nodes' = [nodes EXCEPT ![Top.node].stmts = new_statements \o @]
    /\ stack' = Pop
    /\ UNCHANGED <<pc, importDecls, nextImport, imports, active_replacements,
                   current_scope_symbol, inputDecls, size>>

\* visit_mut_function, after the body's children.
visit_mut_function_exit ==
    /\ pc = "children"
    /\ stack # << >>
    /\ Top.kind = "function"
    /\ is_in_replaceable_scope' = FALSE
    /\ active_replacements' = << >>
    /\ LET new_statements ==
               [i \in 1..Len(active_replacements) |->
                   quote(active_replacements[i], Top.scope)]
       IN  nodes' = [nodes EXCEPT ![Top.node].stmts = new_statements \o @]
    /\ stack' = Pop
    /\ UNCHANGED <<pc, importDecls, nextImport, imports,
                   current_scope_symbol, inputDecls, size>>

\* visit_mut_ident on an identifier of the body being visited.
visit_mut_ident_node ==
    /\ Visiting
    /\ Room(1, 0)
    /\ \E ident \in BodyIdents :
          LET r == visit_mut_ident(ident, is_in_replaceable_scope, imports)
          IN  /\ nodes' = AddNode([Node("Ident", Parent, ident, FALSE, TRUE)
                                      EXCEPT !.ident = r.node])
              /\ active_replacements' = active_replacements \o r.pushed
    /\ UNCHANGED <<pc, importDecls, nextImport, stack, imports,
                   is_in_replaceable_scope, current_scope_symbol, inputDecls, size>>

\* The subtree of a Function that visit_mut_function returned from is part
\* of the tree but no handler runs on it.
unvisited_node ==
    /\ pc = "children"
    /\ stack # << >>
    /\ Top.kind = "unvisited"
    /\ \/ /\ Room(1, 0)
          /\ \E ident \in BodyIdents :
                nodes' = AddNode(Node("Ident", Parent, ident, FALSE, FALSE))
          /\ stack' = stack
       \/ /\ Room(1, 1)
          /\ \E kind \in {"ClassDecl", "FnDecl", "ArrowVar"} :
                nodes' = AddNode(Node(kind, Parent,
                                      Ident(NameOf(NewIndex), InnerCtxt),
                                      TRUE, FALSE))
          /\ stack' = Append(stack, Frame("unvisited", NewIndex, None, FALSE,
                                          FALSE, current_scope_symbol))
    /\ UNCHANGED <<pc, importDecls, nextImport, imports, active_replacements,
                   is_in_replaceable_scope, current_scope_symbol, inputDecls, size>>

unvisited_exit ==
    /\ pc = "children"
    /\ stack # << >>
    /\ Top.kind = "unvisited"
    /\ stack' = Pop
    /\ UNCHANGED <<pc, importDecls, nextImport, nodes, imports,
                   active_replacements, is_in_replaceable_scope,
                   current_scope_symbol, inputDecls, size>>

\* visit_mut_program returns: every module item has been visited.
visit_mut_program_exit ==
    /\ pc = "children"
    /\ stack = << >>
    /\ nextImport > Len(importDecls)
    /\ pc' = "done"
    /\ UNCHANGED <<importDecls, nextImport, nodes, stack, imports,
                   active_replacements, is_in_replaceable_scope,
                   current_scope_symbol, inputDecls, size>>

Next ==
    \/ visit_mut_program
    \/ visit_mut_import_decl
    \/ visit_mut_class_decl
    \/ visit_mut_class_decl_exit
    \/ visit_mut_fn_decl
    \/ visit_mut_fn_decl_exit
    \/ visit_mut_var_declarator
    \/ visit_mut_var_declarator_exit
    \/ visit_mut_function_no_body
    \/ visit_mut_function_no_scope
    \/ visit_mut_function
    \/ visit_mut_function_exit
    \/ visit_mut_ident_node
    \/ unvisited_node
    \/ unvisited_exit
    \/ visit_mut_program_exit

Spec == Init /\ [][Next]_vars

SpecNested == InitNested /\ [][Next]_vars

(***************************************************************************)
(* Reading the tree.                                                       *)
(***************************************************************************)
Nodes == 1..Len(nodes)

RECURSIVE Encloses(_, _)
\* Node a is a proper ancestor of node n.
Encloses(a, n) ==
    /\ nodes[n].parent # 0
    /\ \/ nodes[n].parent = a
       \/ Encloses(a, nodes[n].parent)

IsIdent(n) == nodes[n].kind = "Ident"

\* The identity the identifier was parsed with.
IdOf(n) == <<nodes[n].sym0, nodes[n].ident.ctxt>>

Renamed(n) == IsIdent(n) /\ nodes[n].ident.sym # nodes[n].sym0

\* A Function node with a body: a function declaration's or a Function's.
IsBody(n) == nodes[n].kind \in {"FnDecl", "Function"} /\ nodes[n].has_body

NoNestedFunction(b) ==
    \A n \in Nodes : Encloses(b, n) => nodes[n].kind \notin {"FnDecl", "Function"}

Synthesized(b) == SelectSeq(nodes[b].stmts, LAMBDA st : st.synth)

Original(b) == SelectSeq(nodes[b].stmts, LAMBDA st : ~st.synth)

\* The statements the body was parsed with: one per child, in source order.
RECURSIVE ParsedFrom(_, _)
ParsedFrom(b, n) ==
    IF n > Len(nodes) THEN << >>
    ELSE (IF nodes[n].parent = b THEN << Stmt(n) >> ELSE << >>)
         \o ParsedFrom(b, n + 1)

Parsed(b) == ParsedFrom(b, 1)

\* The local identifiers of the specifiers that import a value: neither the
\* declaration nor the specifier is marked type-only.
Specifiers ==
    UNION { { <<d, k>> : k \in 1..Len(inputDecls[d].specifiers) } :
            d \in 1..Len(inputDecls) }

TypeOnly(d, k) ==
    inputDecls[d].type_only \/ inputDecls[d].specifiers[k].is_type_only

ValueImportIds ==
    { to_id(inputDecls[p[1]].specifiers[p[2]].local) :
        p \in {q \in Specifiers : ~TypeOnly(q[1], q[2])} }

\* The identity is that of an entry of the import table.
InTable(id) == \E i \in 1..Len(imports) : imports[i].symbol_id = id

NameOfNode(n) == nodes[n].ident.sym

\* The declaration `const [_M] = _di([M], C)`.
Declaration(M, C) ==
    [synth |-> TRUE, node |-> 0, binding |-> "_" \o M, local_sym |-> M,
     scope |-> C]

\* The references to imports inside body b, in source order, as the
\* declarations the pass is to synthesize for them under scope C.
RECURSIVE DeclarationsFrom(_, _, _)
DeclarationsFrom(b, C, n) ==
    IF n > Len(nodes) THEN << >>
    ELSE (IF IsIdent(n) /\ Encloses(b, n) /\ InTable(IdOf(n))
          THEN << Declaration(nodes[n].sym0, C) >> ELSE << >>)
         \o DeclarationsFrom(b, C, n + 1)

\* The references inside body b to imports of values.
ImportRefs(b) ==
    {n \in Nodes : IsIdent(n) /\ Encloses(b, n) /\ IdOf(n) \in ValueImportIds}

\* The body of a Function the pass descends into: a function declaration's
\* (a scope symbol is set by then), or a Function reached under one.
Replaceable(b) ==
    /\ IsBody(b)
    /\ nodes[b].visited
    /\ nodes[b].kind = "Function" => nodes[b].prior # None

\* The component whose name is the scope symbol of body b when the body is a
\* method of a class declaration or a function declaration's, reached with no
\* scope symbol; None for any other node.
ComponentOf(b) ==
    IF nodes[b].kind = "FnDecl" /\ nodes[b].visited /\ nodes[b].prior = None
    THEN NameOfNode(b)
    ELSE IF /\ nodes[b].kind = "Function"
            /\ nodes[b].visited
            /\ nodes[b].parent # 0
            /\ nodes[nodes[b].parent].kind = "ClassDecl"
            /\ nodes[nodes[b].parent].prior = None
         THEN NameOfNode(nodes[b].parent)
         ELSE None

(***************************************************************************)
(* C1.  A component that is a method of a class declaration C or a         *)
(* function declaration C, entered with no scope symbol, whose body has no *)
(* nested function and exactly one reference to a value import M: after    *)
(* the pass the body is `const [_M] = _di([M], C)` followed by the         *)
(* statements it was parsed with, and the reference reads `_M`.            *)
(***************************************************************************)
C1_SingleReference ==
    pc = "done" =>
        \A b \in Nodes :
            ( /\ IsBody(b)
              /\ ComponentOf(b) # None
              /\ NoNestedFunction(b)
              /\ Cardinality(ImportRefs(b)) = 1 ) =>
                \A r \in ImportRefs(b) :
                    /\ nodes[b].stmts =
                           << Declaration(nodes[r].sym0, ComponentOf(b)) >>
                           \o Parsed(b)
                    /\ nodes[r].ident.sym = "_" \o nodes[r].sym0

(***************************************************************************)
(* C2.  A function declaration C and a variable declarator C = () => {..}, *)
(* both entered with no scope symbol, are transformed alike: both set the  *)
(* scope symbol to C, and in both every reference of the body to a value   *)
(* import M reads `_M` after the pass, with `const [_M] = _di([M], C)`     *)
(* among the statements prepended to the body.                             *)
(***************************************************************************)
C2_ArrowLikeFunction ==
    /\ ( /\ stack # << >>
         /\ Top.prior = None
         /\ \/ Top.kind = "fn_decl" /\ Top.pending
            \/ Top.kind = "var_declarator" /\ nodes[Top.node].stmts = << >> )
       => current_scope_symbol = NameOfNode(Top.node)
    /\ pc = "done" =>
          \A b \in Nodes :
              ( /\ nodes[b].kind \in {"FnDecl", "ArrowVar"}
                /\ nodes[b].has_body
                /\ nodes[b].visited
                /\ nodes[b].prior = None
                /\ NoNestedFunction(b) ) =>
                  \A r \in ImportRefs(b) :
                      /\ nodes[r].ident.sym = "_" \o nodes[r].sym0
                      /\ \E i \in 1..Len(nodes[b].stmts) :
                            nodes[b].stmts[i] =
                                Declaration(nodes[r].sym0, NameOfNode(b))

(***************************************************************************)
(* C3.  After the pass every renamed reference has a synthesized           *)
(* declaration of its alias among the statements of a function body that   *)
(* encloses the reference.                                                 *)
(***************************************************************************)
C3_AliasDeclared ==
    pc = "done" =>
        \A r \in Nodes :
            Renamed(r) =>
                \E b \in Nodes :
                    /\ IsBody(b)
                    /\ Encloses(b, r)
                    /\ \E i \in 1..Len(nodes[b].stmts) :
                          /\ nodes[b].stmts[i].synth
                          /\ nodes[b].stmts[i].binding = nodes[r].ident.sym

(***************************************************************************)
(* C4.  Shadow safety: an identifier whose binding identity (symbol and    *)
(* syntax context) is that of no entry of the import table is never        *)
(* renamed, and visiting it pushes no ActiveReplacement, also when its     *)
(* symbol is the symbol of an import.                                      *)
(***************************************************************************)
C4_ShadowSafety ==
    [][ /\ \A n \in 1..Len(nodes') :
              ( /\ nodes'[n].kind = "Ident"
                /\ ~\E i \in 1..Len(imports') :
                       imports'[i].symbol_id
                           = <<nodes'[n].sym0, nodes'[n].ident.ctxt>> )
              => nodes'[n].ident.sym = nodes'[n].sym0
        /\ ( /\ Len(nodes') = Len(nodes) + 1
             /\ nodes'[Len(nodes')].kind = "Ident"
             /\ ~InTable(<<nodes'[Len(nodes')].sym0,
                           nodes'[Len(nodes')].ident.ctxt>>) )
           => active_replacements' = active_replacements ]_vars

\* A local binding named like an import has just been visited inside a
\* replaceable body.
C4_Witness ==
    /\ is_in_replaceable_scope
    /\ nodes # << >>
    /\ IsIdent(Len(nodes))
    /\ nodes[Len(nodes)].visited
    /\ IdOf(Len(nodes)) = <<"Modal", InnerCtxt>>
    /\ InTable(<<"Modal", TopCtxt>>)
    /\ ~Renamed(Len(nodes))

(***************************************************************************)
(* C5.  The import declarations are left as parsed: none added, removed or *)
(* reordered, no identifier of a specifier renamed; the replaceable flag   *)
(* is false wherever an import declaration can be visited (the module's    *)
(* top level).                                                             *)
(***************************************************************************)
C5_ImportsUnchanged ==
    /\ importDecls = inputDecls
    /\ stack = << >> => ~is_in_replaceable_scope

\* The import declaration has been traversed, with its bindings in the
\* import table and a body of the module rewritten.
C5_Witness ==
    /\ nextImport > Len(importDecls)
    /\ imports # << >>
    /\ \E b \in Nodes : Synthesized(b) # << >>

(***************************************************************************)
(* C6.  An identifier at the module's top level, enclosed by no class,     *)
(* function or arrow variable, is never renamed and pushes no              *)
(* ActiveReplacement, also when its identity is an import's.               *)
(***************************************************************************)
C6_TopLevelPassthrough ==
    /\ \A n \in Nodes : (IsIdent(n) /\ nodes[n].parent = 0) => ~Renamed(n)
    /\ stack = << >> => active_replacements = << >>

\* A reference to an import at top level, after a function body that was
\* rewritten.
C6_Witness ==
    \E n \in Nodes :
        /\ IsIdent(n)
        /\ nodes[n].parent = 0
        /\ InTable(IdOf(n))
        /\ \E b \in 1..(n - 1) : Synthesized(b) # << >>

\* The declarations of body b as pairs of alias and original name.
Pairs(decls) ==
    [i \in 1..Len(decls) |-> <<decls[i].binding, decls[i].local_sym>>]

(***************************************************************************)
(* C7.  No deduplication: a replaceable body without nested function that  *)
(* holds n references matching imports (one at least) has each of them     *)
(* renamed to `_` and the import's local name, and exactly n declarations  *)
(* prepended, one per match in the order of the matches.                   *)
(***************************************************************************)
C7_OnePerMatch ==
    pc = "done" =>
        \A b \in Nodes :
            ( /\ Replaceable(b)
              /\ NoNestedFunction(b)
              /\ DeclarationsFrom(b, None, 1) # << >> ) =>
                /\ Pairs(Synthesized(b)) = Pairs(DeclarationsFrom(b, None, 1))
                /\ \A n \in Nodes :
                      (IsIdent(n) /\ Encloses(b, n) /\ InTable(IdOf(n)))
                      => nodes[n].ident.sym = "_" \o nodes[n].sym0

(***************************************************************************)
(* C8.  Type-only imports never enter the import table: neither the        *)
(* specifiers of a type-only declaration nor a named specifier marked      *)
(* type-only; with type-only imports alone the table is empty, nothing is  *)
(* synthesized and nothing renamed.                                        *)
(***************************************************************************)
C8_TypeOnlyExcluded ==
    pc # "start" =>
        /\ \A p \in Specifiers :
              TypeOnly(p[1], p[2]) =>
                  ~InTable(to_id(inputDecls[p[1]].specifiers[p[2]].local))
        /\ ValueImportIds = {} =>
              /\ imports = << >>
              /\ \A n \in Nodes : ~Renamed(n) /\ Synthesized(n) = << >>

C10_ScopeRestored ==
    [][ ( /\ stack # << >>
          /\ Top.kind \in {"class_decl", "fn_decl", "var_declarator"}
          /\ stack' = Pop )
        => current_scope_symbol' = Top.prior ]_vars

(***************************************************************************)
(* Reading the traversal.                                                  *)
(***************************************************************************)
\* The traversal of body b is over: visit_mut_function ran on it and is no
\* longer on the stack.
Completed(b) ==
    /\ Replaceable(b)
    /\ ~\E k \in 1..Len(stack) :
           stack[k].node = b /\ (stack[k].kind = "function" \/ stack[k].pending)

\* Node n lies in body b itself: in no Function nested inside b.
DirectlyIn(b, n) ==
    /\ Encloses(b, n)
    /\ ~\E f \in Nodes :
           /\ nodes[f].kind \in {"FnDecl", "Function"}
           /\ Encloses(b, f)
           /\ Encloses(f, n)

\* Identifier n lies directly in body out, after a Function body nested in
\* out that the pass traversed.
AfterNested(out, n) ==
    /\ Replaceable(out)
    /\ IsIdent(n)
    /\ DirectlyIn(out, n)
    /\ \E b \in 1..(n - 1) :
          Replaceable(b) /\ Encloses(out, b) /\ ~Encloses(b, n)

(***************************************************************************)
(* C11.  One flag for nested bodies: once the traversal of a function body *)
(* nested inside a replaceable body has ended, the replaceable flag is     *)
(* false for the rest of the outer body's traversal; a reference to an     *)
(* import that lies directly in the outer body after the nested function   *)
(* is not renamed and visiting it pushes no ActiveReplacement.             *)
(***************************************************************************)
C11_SingleFlagNesting ==
    [][ /\ ( /\ stack' # << >>
             /\ stack'[Len(stack')].kind = "function"
             /\ \E b \in 1..Len(nodes') :
                   /\ nodes'[b].kind \in {"FnDecl", "Function"}
                   /\ nodes'[b].has_body
                   /\ nodes'[b].visited
                   /\ nodes'[b].kind = "Function" => nodes'[b].prior # None
                   /\ b > stack'[Len(stack')].node
                   /\ ~\E k \in 1..Len(stack') :
                          /\ stack'[k].node = b
                          /\ stack'[k].kind = "function" \/ stack'[k].pending )
           => ~is_in_replaceable_scope'
        /\ ( /\ stack # << >>
             /\ Top.kind = "function"
             /\ \E b \in Nodes : b > Top.node /\ Completed(b)
             /\ Len(nodes') = Len(nodes) + 1
             /\ nodes'[Len(nodes')].kind = "Ident" )
           => /\ nodes'[Len(nodes')].ident.sym = nodes'[Len(nodes')].sym0
              /\ active_replacements' = active_replacements ]_vars

\* A reference to an import has been visited directly in a replaceable body,
\* after a nested function whose body was traversed.
C11_Witness ==
    \E out \in Nodes : \E n \in Nodes :
        /\ AfterNested(out, n)
        /\ nodes[n].visited
        /\ InTable(IdOf(n))
        /\ ~Renamed(n)

(***************************************************************************)
(* C12.  A function body the pass traversed, nested or not, that holds no  *)
(* reference matching an import has no declaration prepended: after the    *)
(* pass its statements are those it was parsed with.                       *)
(***************************************************************************)
C12_NoMatchUnchanged ==
    pc = "done" =>
        \A b \in Nodes :
            ( /\ Replaceable(b)
              /\ DeclarationsFrom(b, None, 1) = << >> )
            => nodes[b].stmts = Parsed(b)

\* A component function: a function declaration reached with no scope
\* symbol, which makes its name the scope symbol.
IsComponent(c) ==
    nodes[c].kind = "FnDecl" /\ nodes[c].visited /\ nodes[c].prior = None

\* A helper of component c: a function declaration or an arrow variable
\* inside c, inside no class declaration nested in c.
IsHelper(c, h) ==
    /\ IsComponent(c)
    /\ nodes[h].kind \in {"FnDecl", "ArrowVar"}
    /\ nodes[h].visited
    /\ Encloses(c, h)
    /\ ~\E k \in Nodes :
           nodes[k].kind = "ClassDecl" /\ Encloses(c, k) /\ Encloses(k, h)

(***************************************************************************)
(* C13.  Helpers keep the component's name: while a function declaration   *)
(* or an arrow variable nested in the body of component function C, inside *)
(* no nested class declaration, is traversed (outside any class            *)
(* declaration nested in it), the scope symbol is C; and every declaration *)
(* synthesized in a body of the helper passes C to `_di`.                  *)
(***************************************************************************)
C13_HelperKeepsComponentName ==
    \A c \in Nodes : \A h \in Nodes :
        IsHelper(c, h) =>
            /\ ( /\ \E k \in 1..Len(stack) :
                       stack[k].node = h
                 /\ ~\E k \in 1..Len(stack) :
                        stack[k].kind = "class_decl" /\ stack[k].node > h )
               => current_scope_symbol = NameOfNode(c)
            /\ \A b \in Nodes :
                  ( /\ b = h \/ Encloses(h, b)
                    /\ ~\E k \in Nodes :
                           nodes[k].kind = "ClassDecl" /\ Encloses(c, k)
                                                       /\ Encloses(k, b) )
                  => \A i \in 1..Len(nodes[b].stmts) :
                         nodes[b].stmts[i].synth =>
                             nodes[b].stmts[i].scope = NameOfNode(c)

(***************************************************************************)
(* C14.  The traversal state is reset outside components: between two      *)
(* module items and when the pass is over, the replaceable flag is false,  *)
(* no ActiveReplacement is accumulated and there is no scope symbol,       *)
(* whatever classes, functions and arrow variables were nested.            *)
(***************************************************************************)
C14_StateReset ==
    (pc \in {"children", "done"} /\ stack = << >>) =>
        /\ ~is_in_replaceable_scope
        /\ active_replacements = << >>
        /\ current_scope_symbol = None

\* The pass is over on a module with a class, function or arrow variable
\* nested in another, in which a reference was renamed.
C14_Witness ==
    /\ pc = "done"
    /\ \E n \in Nodes : Renamed(n)
    /\ \E a \in Nodes : \E d \in Nodes :
          /\ Encloses(a, d)
          /\ nodes[a].visited /\ nodes[d].visited
          /\ nodes[a].kind \in {"ClassDecl", "FnDecl", "ArrowVar"}
          /\ nodes[d].kind \in {"ClassDecl", "FnDecl", "ArrowVar", "Function"}

\* The aliases the pass can generate.
Aliases == { "_" \o imports[i].local_imported_symbol : i \in 1..Len(imports) }

\* How many references were renamed to alias s, in the module's body and in
\* its import declarations.
RenamedTo(s) ==
    Cardinality({n \in Nodes : Renamed(n) /\ nodes[n].ident.sym = s})
    + Cardinality({p \in Specifiers :
          /\ importDecls[p[1]].specifiers[p[2]].local.sym = s
          /\ inputDecls[p[1]].specifiers[p[2]].local.sym # s})

\* How many declarations of alias s were synthesized, over all bodies.
RECURSIVE DeclaredFrom(_, _)
DeclaredFrom(s, n) ==
    IF n > Len(nodes) THEN 0
    ELSE Len(SelectSeq(nodes[n].stmts,
                       LAMBDA st : st.synth /\ st.binding = s))
         + DeclaredFrom(s, n + 1)

\* How many accumulated replacements of alias s wait to be emitted.
Waiting(s) == Len(SelectSeq(active_replacements, LAMBDA r : r.symbol = s))

(***************************************************************************)
(* C15.  Conservation of replacements: every ActiveReplacement a rename    *)
(* pushes is emitted as one declaration in one body, none lost and none    *)
(* emitted twice; when the pass is over there are as many synthesized      *)
(* declarations as renamed references, alias by alias.                     *)
(***************************************************************************)
C15_Conservation ==
    /\ \A s \in Aliases :
          DeclaredFrom(s, 1) + Waiting(s) = RenamedTo(s)
    /\ \A n \in Nodes : \A i \in 1..Len(nodes[n].stmts) :
          nodes[n].stmts[i].synth => nodes[n].stmts[i].binding \in Aliases
    /\ pc = "done" =>
          \A s \in Aliases : DeclaredFrom(s, 1) = RenamedTo(s)

\* The pass is over with two references renamed and their declarations
\* synthesized.
C15_Witness ==
    /\ pc = "done"
    /\ Cardinality({n \in Nodes : Renamed(n)}) >= 2
    /\ \E b \in Nodes : Len(Synthesized(b)) >= 2

\* A Function with a body that visit_mut_function reached with no scope
\* symbol.
ReachedWithoutScope(f) ==
    /\ nodes[f].kind = "Function"
    /\ nodes[f].has_body
    /\ nodes[f].visited
    /\ nodes[f].prior = None

(***************************************************************************)
(* C16.  A Function whose body is reached with no scope symbol is left as  *)
(* parsed: the traversal does not go into it, so its statements are those  *)
(* it was parsed with, nothing in its subtree is renamed or added, and no  *)
(* class declaration, function declaration or arrow variable inside it     *)
(* has a handler run on it or becomes the scope symbol.                    *)
(***************************************************************************)
C16_NoScopeUntouched ==
    \A f \in Nodes :
        ReachedWithoutScope(f) =>
            /\ nodes[f].stmts = Parsed(f)
            /\ \A n \in Nodes :
                  Encloses(f, n) =>
                      /\ ~nodes[n].visited
                      /\ nodes[n].ident.sym = nodes[n].sym0
                      /\ nodes[n].stmts = Parsed(n)
                      /\ current_scope_symbol # NameOfNode(n)
            /\ (\E k \in 1..Len(stack) : stack[k].node = f)
                  => current_scope_symbol = None

\* A function expression at top level that holds a reference to an import
\* and a declaration; the pass is over.
C16_Witness ==
    /\ pc = "done"
    /\ \E f \in Nodes :
          /\ ReachedWithoutScope(f)
          /\ \E n \in Nodes :
                IsIdent(n) /\ Encloses(f, n) /\ InTable(IdOf(n))
          /\ \E d \in Nodes :
                Encloses(f, d) /\ nodes[d].kind \in {"ClassDecl", "FnDecl", "ArrowVar"}

====
